---- MODULE Spec2Model ----
(***************************************************************************)
(* The tool-calling conversation relay of mcp-biconomy-backend.            *)
(*                                                                         *)
(* Two relays live in the repository and both are modelled:                *)
(*   - the OpenAI relay (src/unnamed/part_002) with its Tool Endpoint      *)
(*     Client (src/unnamed/part_001); it reconnects lazily and is started  *)
(*     either by startServer() or, under VERCEL, by a bare initialize();   *)
(*   - the Anthropic relay (src/src/server.js, src/src/mcpClient.js).      *)
(* The variable deployment says which program is running.                  *)
(*                                                                         *)
(* The chat store (src/unnamed/part_000) keeps chats and their messages    *)
(* in two tables of a managed database; its functions are modelled under   *)
(* the specification SpecStore, one step for each awaited query.           *)
(*                                                                         *)
(* Every await of the source is a step boundary: the code between two      *)
(* awaits runs as one action.  The MCP SDK, the model provider and the     *)
(* HTTP client are the environment; their answers are nondeterministic.    *)
(*                                                                         *)
(* JavaScript values are encoded as strings and records of one shape:      *)
(* "undefined", "null", "absent" (no such key) stand for themselves.       *)
(***************************************************************************)
EXTENDS Integers, Sequences, FiniteSets, TLC

\* ------------------------------------------------------------- bounds
MaxArrivals == 2   \* HTTP requests accepted in one run
MaxCalls    == 2   \* tool calls the model emits in one turn
MaxRounds   == 3   \* requests of one conversation that is sent back each round
MaxChats    == 2   \* rows ever inserted into the chats table
MaxMessages == 2   \* rows ever inserted into the messages table

Slots == {"r1", "r2"}            \* requests in flight at the same time
Procs == Slots \cup {"startup"}  \* callers of mcpClient.initialize()
\* start-up and each request call initialize() at most once each
Handles == 1..((IF MaxRounds > MaxArrivals THEN MaxRounds ELSE MaxArrivals) + 1)

VARIABLES
  workload,      \* how the run is bounded: "sequential" | "concurrent" | "rounds"
  deployment,    \* "serverless" | "server" (part_002), "legacy" (src/server.js)
  endpoint,      \* "up": the tool endpoint answers every request of a
                 \* connected session; "flaky": any request may fail
  client,        \* mcpClient.client: a handle, 0 for null
  isConnected,   \* mcpClient.isConnected
  tools,         \* mcpClient.tools
  session,       \* state of each Client object created so far
  boot,          \* position of the module's start-up code
  ini,           \* each caller's position inside initialize()
  req,           \* each slot's request: position, locals, response
  initSucceeded, \* history: some initialize() has returned true
  initFailed,    \* history: some initialize() has returned false
  arrivals       \* history: requests accepted so far

VARIABLES
  chatRows,      \* table chats: the user_id of each row, "none" where no row is
  messageRows,   \* table messages: the number of rows with each chat_id
  op,            \* each caller of the chat store: function, position, result
  deleted        \* history: chats for which deleteChat returned success

relayVars == <<workload, deployment, endpoint, client, isConnected, tools, session,
               boot, ini, req, initSucceeded, initFailed, arrivals>>
storeVars == <<chatRows, messageRows, op, deleted>>

vars == <<relayVars, storeVars>>

\* ------------------------------------------------------------- data
\* A content block: a text part, a tool_use part or a tool_result part.
Block(type, id, name, val) == [type |-> type, id |-> id, name |-> name, val |-> val]
Text(s) == <<Block("text", "absent", "absent", s)>>

\* A tool call of an OpenAI assistant message: {id, function: {name, arguments}}.
Call(id, name, arguments) == [id |-> id, name |-> name, arguments |-> arguments]

NoCalls == [k |-> "absent", items |-> <<>>]
ArrayOf(items) == [k |-> "array", items |-> items]

\* A message or a provider response.  extra is a bookkeeping property the
\* front end keeps on its messages (isToolCall, isError, ...).
Obj(role, content, tool_calls, tool_call_id, extra, stop_reason) ==
  [role |-> role, content |-> content, tool_calls |-> tool_calls,
   tool_call_id |-> tool_call_id, extra |-> extra, stop_reason |-> stop_reason]

Message(role, content) == Obj(role, content, NoCalls, "absent", "absent", "absent")
NoObj == Obj("absent", <<>>, NoCalls, "absent", "absent", "absent")

\* The tool descriptors the endpoint lists.
ToolList == <<[name |-> "search", description |-> "d1", inputSchema |-> "s1"],
              [name |-> "lookup", description |-> "d2", inputSchema |-> "s2"]>>

\* Argument strings the model may emit, and what JSON.parse makes of them.
GoodJSON == "{\"q\":\"x\"}"
BadJSON  == "{\"q\":"

\* JSON.parse(toolCall.function.arguments): throws on a malformed string.
JSONParse(s) ==
  IF s = GoodJSON THEN [ok |-> TRUE, v |-> "q=x"]
  ELSE [ok |-> FALSE, v |-> "SyntaxError"]

\* JSON.stringify(value); JSON.stringify(undefined) is undefined.
JSONStringify(v) ==
  IF v = "absent" THEN "undefined" ELSE "\"" \o v \o "\""

\* res.json drops a key whose value is undefined.
JSONField(v) == IF v = "undefined" THEN "absent" ELSE v

\* JavaScript truthiness of a string-or-missing property.
Truthy(v) == v \notin {"absent", "undefined", "null", ""}

\* ------------------------------------------------------------- requests
Field(k, v) == [k |-> k, v |-> v]

Body(messages, toolResults, assistantResponse) ==
  [messages |-> messages, toolResults |-> toolResults,
   assistantResponse |-> assistantResponse]

NoBody == Body([k |-> "undefined", items |-> <<>>],
               [k |-> "undefined", items |-> <<>>],
               Field("undefined", NoObj))

\* One element of toolResults.  id is tool_call_id (OpenAI relay) or
\* tool_use_id (Anthropic relay); a key that is not set is "absent".
ToolResult(id, name, arguments, result, error) ==
  [id |-> id, name |-> name, arguments |-> arguments,
   result |-> result, error |-> error]

\* res.json of a message: a key holding undefined is not sent.
JSONObj(o) ==
  [o EXCEPT !.tool_calls.k = JSONField(@)]

\* The HTTP response: status and the JSON payload.
Out(status, response, toolResults, needsToolResponse, error) ==
  [status |-> status, response |-> JSONObj(response), toolResults |-> toolResults,
   needsToolResponse |-> JSONField(needsToolResponse), error |-> error]

NoOut == Out(0, NoObj, NoCalls, "absent", "absent")

\* What the client fed into a continuation, when it is a round trip.
NoOrigin == [rt |-> FALSE, messages |-> <<>>]

IdleReq ==
  [pc |-> "idle", route |-> "none", body |-> NoBody, observed |-> FALSE,
   inits |-> 0, connected |-> "none", gw |-> 0, submitted |-> <<>>, turn |-> NoObj, idx |-> 0,
   toolResults |-> <<>>, callLog |-> <<>>, out |-> NoOut, origin |-> NoOrigin]

NoIni == [pc |-> "none", h |-> 0, live |-> FALSE]

\* ------------------------------------------------------------- Tool Endpoint Client
\* isReady() and getTools()
isReady == isConnected
getTools == tools

\* Handles not yet handed out by `new Client(...)`.
FreeHandles == {h \in Handles : session[h] = "none"}
NewHandle == CHOOSE h \in FreeHandles : \A g \in FreeHandles : h <= g

\* ------------------------------------------------------------- relay: pure parts
\* res.json(...) / res.status(...).json(...): the handler is over.  The
\* body the client sent stays with the answer, and so does the list an
\* answered continuation submitted when the client goes on with the
\* conversation; nothing else of an answered request is read again.
Respond(q, out) ==
  LET kept == workload = "rounds" /\ out.status = 200 IN
  [q EXCEPT !.pc = "done", !.out = out, !.idx = 0,
            !.submitted = IF q.route = "chat" \/ kept THEN @ ELSE <<>>,
            !.origin = [rt |-> kept /\ q.origin.rt, messages |-> <<>>]]

\* res.status(code).json({ error: message })
ErrorOut(status, message) == Out(status, NoObj, NoCalls, "undefined", message)

\* Mutant of ValidMessages: the Array.isArray test is left out.
ValidMessagesTruthyOnly(messages) ==
  ~(messages.k \in {"undefined", "null"})

\* if (!messages || !Array.isArray(messages)) return 400
ValidMessages(messages) ==
  ~(messages.k \in {"undefined", "null"} \/ messages.k # "array")

\* messages.map(msg => ({ role: msg.role, content: msg.content }))
cleanedMessages(messages) ==
  [i \in 1..Len(messages) |-> Message(messages[i].role, messages[i].content)]

\* tr.error ? `Error: ${tr.error}` : JSON.stringify(tr.result)
toolResultText(tr) ==
  IF Truthy(tr.error) THEN "Error: " \o tr.error ELSE JSONStringify(tr.result)

\* part_002: one role:'tool' message for each element of toolResults
toolResultMessages(toolResults) ==
  [i \in 1..Len(toolResults) |->
     Obj("tool", Text(toolResultText(toolResults[i])), NoCalls,
         toolResults[i].id, "absent", "absent")]

\* src/server.js: one tool_result block for each element of toolResults
toolResultContent(toolResults) ==
  [i \in 1..Len(toolResults) |->
     Block("tool_result", toolResults[i].id, "absent",
           toolResultText(toolResults[i]))]

\* Mutant of updatedMessagesOpenAI: the tool results are put before the
\* assistant's tool-request message.
updatedMessagesResultsFirst(body) ==
  cleanedMessages(body.messages.items)
    \o toolResultMessages(body.toolResults.items)
    \o <<body.assistantResponse.v>>

\* part_002: [...cleanedMessages, assistantResponse, ...toolResultMessages]
updatedMessagesOpenAI(body) ==
  cleanedMessages(body.messages.items)
    \o <<body.assistantResponse.v>>
    \o toolResultMessages(body.toolResults.items)

\* src/server.js: [...cleanedMessages, {assistant}, {user: toolResultContent}]
updatedMessagesAnthropic(body) ==
  cleanedMessages(body.messages.items)
    \o <<Message("assistant", body.assistantResponse.v.content)>>
    \o <<Message("user", toolResultContent(body.toolResults.items))>>

\* The call of the Model Gateway: openai.chat.completions.create /
\* anthropic.messages.create, awaited.
CallGateway(q, messages) ==
  [q EXCEPT !.pc = "model", !.submitted = messages, !.gw = @ + 1]

\* /api/chat once the client is ready: clean, map the tools, call the model.
ChatProceed(q) == CallGateway(q, cleanedMessages(q.body.messages.items))

\* /api/chat/continue once the client is ready.  messages.map and
\* toolResults.map throw a TypeError on anything that is not an array, and
\* src/server.js reads assistantResponse.content; the outer catch answers 500.
ContinueProceed(q, legacy) ==
  IF q.body.messages.k # "array" \/ q.body.toolResults.k # "array"
    THEN Respond(q, ErrorOut(500, "TypeError"))
  ELSE IF legacy
    THEN IF q.body.assistantResponse.k = "undefined"
           THEN Respond(q, ErrorOut(500, "TypeError"))
           ELSE CallGateway(q, updatedMessagesAnthropic(q.body))
  ELSE CallGateway(q, updatedMessagesOpenAI(q.body))

\* Mutant of AfterInitialize: the result of initialize() is not looked at.
AfterInitializeUnchecked(q, connected) ==
  IF q.route = "chat"
    THEN ChatProceed([q EXCEPT !.connected = IF connected THEN "true" ELSE "false"])
    ELSE ContinueProceed([q EXCEPT !.connected = IF connected THEN "true" ELSE "false"],
                         FALSE)

\* part_002: const connected = await mcpClient.initialize();
\*           if (!connected) return res.status(503)...
AfterInitialize(q, connected) ==
  IF ~connected
    THEN Respond([q EXCEPT !.connected = "false"],
                 ErrorOut(503, "MCP client failed to connect"))
  ELSE IF q.route = "chat" THEN ChatProceed([q EXCEPT !.connected = "true"])
  ELSE ContinueProceed([q EXCEPT !.connected = "true"], FALSE)

\* message.tool_calls && message.tool_calls.length > 0, as a JavaScript value
needsToolResponseOpenAI(message) ==
  IF message.tool_calls.k \in {"undefined", "null", "absent"}
    THEN (IF message.tool_calls.k = "absent" THEN "undefined"
          ELSE message.tool_calls.k)
  ELSE IF Len(message.tool_calls.items) > 0 THEN "true" ELSE "false"

\* response.stop_reason === 'tool_use'
needsToolResponseAnthropic(response) ==
  IF response.stop_reason = "tool_use" THEN "true" ELSE "false"

\* An entry of the record of callTool invocations (history).
Invocation(name, arguments, notConnected) ==
  [name |-> name, arguments |-> arguments, notConnected |-> notConnected,
   afterSuccess |-> initSucceeded]

\* Mutant of RespondTools: the tool results are submitted to the model
\* again instead of being returned to the client.
RespondToolsResubmitting(q) ==
  CallGateway(q, q.submitted \o <<q.turn>> \o toolResultMessages(q.toolResults))

\* res.json({ response, toolResults, needsToolResponse: true })
RespondTools(q) ==
  Respond(q, Out(200, q.turn, ArrayOf(q.toolResults), "true", "absent"))

\* The catch block of the loop of part_002, entered from JSON.parse: it
\* parses the same string again, which throws again, out of the loop and
\* into the handler's outer catch.
ParseFailure(q, toolCall) ==
  Respond(q, ErrorOut(500, "SyntaxError"))

\* mcpClient.callTool, up to its await: throws when not connected (the
\* relay's catch turns that into an error entry and the loop goes on),
\* otherwise sends the call on this.client and waits.
RECURSIVE ToolLoopOpenAI(_, _)
ToolLoopOpenAI(q, i) ==
  LET calls == q.turn.tool_calls.items IN
  IF i > Len(calls) THEN RespondTools(q)
  ELSE LET toolCall == calls[i]
           args == JSONParse(toolCall.arguments) IN
    IF ~args.ok THEN ParseFailure(q, toolCall)
    ELSE IF ~isConnected
      THEN ToolLoopOpenAI(
             [q EXCEPT !.callLog = Append(@, Invocation(toolCall.name, args.v, TRUE)),
                       !.toolResults = Append(@,
                          ToolResult(toolCall.id, toolCall.name, args.v, "absent",
                                     "MCP client not connected"))],
             i + 1)
    ELSE [q EXCEPT !.pc = "tool", !.idx = i,
                   !.callLog = Append(@, Invocation(toolCall.name, args.v, FALSE))]

\* The loop of src/server.js over response.content: only tool_use blocks
\* are executed, and block.input is already structured data.
RECURSIVE ToolLoopAnthropic(_, _)
ToolLoopAnthropic(q, i) ==
  LET blocks == q.turn.content IN
  IF i > Len(blocks) THEN RespondTools(q)
  ELSE LET block == blocks[i] IN
    IF block.type # "tool_use" THEN ToolLoopAnthropic(q, i + 1)
    ELSE IF ~isConnected
      THEN ToolLoopAnthropic(
             [q EXCEPT !.callLog = Append(@, Invocation(block.name, block.val, TRUE)),
                       !.toolResults = Append(@,
                          ToolResult(block.id, block.name, block.val, "absent",
                                     "MCP client not connected"))],
             i + 1)
    ELSE [q EXCEPT !.pc = "tool", !.idx = i,
                   !.callLog = Append(@, Invocation(block.name, block.val, FALSE))]

\* part_002, /api/chat after the model answered
ChatTurnOpenAI(q, message) ==
  IF needsToolResponseOpenAI(message) = "true"
    THEN ToolLoopOpenAI([q EXCEPT !.turn = message], 1)
    ELSE Respond([q EXCEPT !.turn = message],
                 Out(200, message, NoCalls, "false", "absent"))

\* src/server.js, /api/chat after the model answered
ChatTurnAnthropic(q, response) ==
  IF response.stop_reason = "tool_use"
    THEN ToolLoopAnthropic([q EXCEPT !.turn = response], 1)
    ELSE Respond([q EXCEPT !.turn = response],
                 Out(200, response, NoCalls, "false", "absent"))

\* /api/chat/continue after the model answered: the new turn is returned
\* as it is, with needsToolResponse computed from it.
ContinueTurn(q, turn, legacy) ==
  Respond([q EXCEPT !.turn = turn],
          Out(200, turn, NoCalls,
              IF legacy THEN needsToolResponseAnthropic(turn)
              ELSE needsToolResponseOpenAI(turn),
              "absent"))

\* The entry pushed when the awaited callTool settles.
ToolSettled(q, ok) ==
  LET legacy == q.turn.stop_reason # "absent"
      id   == IF legacy THEN q.turn.content[q.idx].id
              ELSE q.turn.tool_calls.items[q.idx].id
      name == q.callLog[Len(q.callLog)].name
      args == q.callLog[Len(q.callLog)].arguments
      q2 == [q EXCEPT !.toolResults = Append(@,
               IF ok THEN ToolResult(id, name, args, "R-" \o name, "absent")
               ELSE ToolResult(id, name, args, "absent", "tool failed"))]
  IN IF legacy THEN ToolLoopAnthropic(q2, q.idx + 1)
     ELSE ToolLoopOpenAI(q2, q.idx + 1)

\* ------------------------------------------------------------- inputs
\* Messages the front end sends.
U1  == Message("user", Text("hi"))
U1x == Obj("user", Text("hi"), NoCalls, "absent", "isError", "absent")
A1  == Message("assistant", Text("hello"))

ChatMessages ==
  { [k |-> "undefined", items |-> <<>>],
    [k |-> "string", items |-> <<>>],
    ArrayOf(<<>>),
    ArrayOf(<<U1x, A1>>) }

\* Identifiers and names of the calls of one turn, in emitted order.
CallIds   == <<"call_b", "call_a", "call_d", "call_c">>
CallNames == <<"search", "lookup", "search", "lookup">>

CallSeqs ==
  UNION { { [i \in 1..n |-> Call(CallIds[i], CallNames[i], a[i])] :
            a \in [1..n -> {GoodJSON, BadJSON}] } : n \in 1..MaxCalls }

\* What openai.chat.completions.create resolves to: response.choices[0].message
OpenAITurns ==
  { Obj("assistant", Text("done"), [k |-> kk, items |-> <<>>],
        "absent", "absent", "absent") : kk \in {"undefined", "null", "array"} }
  \cup
  { Obj("assistant", <<>>, ArrayOf(cs), "absent", "absent", "absent") :
      cs \in CallSeqs }

ToolUseBlocks(n) ==
  [i \in 1..n |-> Block("tool_use", CallIds[i], CallNames[i], "q=x")]

\* What anthropic.messages.create resolves to
AnthropicTurns ==
  { Obj("assistant", Text("done"), NoCalls, "absent", "absent", "end_turn") }
  \cup
  { Obj("assistant", pre \o ToolUseBlocks(n), NoCalls, "absent", "absent", "tool_use") :
      pre \in {<<>>, Text("let me check")}, n \in 1..MaxCalls }

\* Bodies of /api/chat/continue that are not a round trip.
HandMadeResult == ToolResult("call_b", "search", "q=x", "R-search", "absent")
HandMadeTurn ==
  IF deployment = "legacy"
    THEN Obj("assistant", ToolUseBlocks(1), NoCalls, "absent", "absent", "tool_use")
    ELSE Obj("assistant", <<>>, ArrayOf(<<Call("call_b", "search", GoodJSON)>>),
             "absent", "absent", "absent")

\* The same message as the front end keeps it, with its own isToolCall flag.
HandMadeTurnFlagged == [HandMadeTurn EXCEPT !.extra = "isToolCall"]

ContinueBodies ==
  { Body(m, t, a) :
      m \in { [k |-> "undefined", items |-> <<>>], ArrayOf(<<U1>>) },
      t \in { [k |-> "undefined", items |-> <<>>], ArrayOf(<<HandMadeResult>>) },
      a \in { Field("undefined", NoObj), Field("object", HandMadeTurn),
              Field("object", HandMadeTurnFlagged) } }
  \ { Body(m, [k |-> "undefined", items |-> <<>>], Field("undefined", NoObj)) :
        m \in { [k |-> "undefined", items |-> <<>>], ArrayOf(<<U1>>) } }

\* The two workloads.  "sequential": one client sends its requests one after
\* another (start-up may still be connecting) and every input above is tried.
\* "concurrent": two requests are in flight at once, over fewer inputs: a
\* missing or a well-formed conversation, a final answer or one tool call.
\* "rounds": one client carries one conversation through chat, continue,
\* chat, ...: each request sends back what the conversation has become.
Few(S, T) == IF workload = "sequential" THEN S ELSE T

ChatInputs ==
  IF workload = "rounds" THEN { ArrayOf(<<U1>>) }
  ELSE Few(ChatMessages, { [k |-> "undefined", items |-> <<>>], ArrayOf(<<U1x, A1>>) })

ContinueInputs ==
  Few(ContinueBodies,
      { Body(ArrayOf(<<U1>>), ArrayOf(<<HandMadeResult>>),
             Field("object", HandMadeTurn)) })

\* The conversation the client holds after an answer: what was submitted
\* to the model, then the model's answer.
Conversation(q) ==
  (IF q.route = "chat" THEN q.body.messages.items ELSE q.submitted)
    \o <<q.out.response>>

\* The next message the user types.
U2 == Message("user", Text("and then?"))

Turns ==
  IF deployment = "legacy"
    THEN Few(AnthropicTurns, {t \in AnthropicTurns : Len(t.content) = 1})
    ELSE Few(OpenAITurns,
             {t \in OpenAITurns :
                /\ t.tool_calls.k \in {"undefined", "array"}
                /\ Len(t.tool_calls.items) <= 1
                /\ \A i \in 1..Len(t.tool_calls.items) :
                      t.tool_calls.items[i].arguments = GoodJSON})

\* ------------------------------------------------------------- actions
\* The chat store before any call: no rows, no caller.
Callers == {"o1", "o2"}
ChatIds == 1..MaxChats
Users == {"u1", "u2"}
NoOp == [fn |-> "none", pc |-> "idle", chatId |-> 0, userId |-> "none",
         success |-> "none"]

StoreInit ==
  /\ chatRows = [c \in ChatIds |-> "none"]
  /\ messageRows = [c \in ChatIds |-> 0]
  /\ op = [o \in Callers |-> NoOp]
  /\ deleted = {}

Init ==
  /\ StoreInit
  /\ workload \in {"sequential", "concurrent", "rounds"}
  /\ deployment \in {"serverless", "server", "legacy"}
  /\ endpoint \in {"up", "flaky"}
  /\ client = 0
  /\ isConnected = FALSE
  /\ tools = <<>>
  /\ session = [h \in Handles |-> "none"]
  /\ boot = "load"
  /\ ini = [p \in Procs |-> NoIni]
  /\ req = [r \in Slots |-> IdleReq]
  /\ initSucceeded = FALSE
  /\ initFailed = FALSE
  /\ arrivals = 0

\* initialize(), up to `await this.client.connect(transport)`
InitializeCall(p) ==
  /\ FreeHandles # {}
  /\ client' = NewHandle
  /\ session' = [session EXCEPT ![NewHandle] = "connecting"]
  /\ ini' = [ini EXCEPT ![p] = [pc |-> "connect", h |-> NewHandle,
                                live |-> FALSE]]

\* The code that runs when initialize() has returned to its caller.
Returned(p, connected) ==
  IF p = "startup"
    THEN /\ boot' = "listening"
         /\ req' = req
    ELSE /\ boot' = boot
         /\ req' = [req EXCEPT ![p] = AfterInitialize(req[p], connected)]

\* Module start-up: startServer() awaits initialize() before app.listen;
\* under VERCEL initialize() is started and the app is exported at once.
StartUp ==
  /\ boot = "load"
  /\ InitializeCall("startup")
  /\ boot' = IF deployment = "serverless" THEN "listening" ELSE "starting"
  /\ UNCHANGED <<storeVars, workload, deployment, endpoint, isConnected, tools, req, initSucceeded, initFailed, arrivals>>

\* `await this.client.connect(transport)` settles.
ConnectReturns(p, ok) ==
  /\ ini[p].pc = "connect"
  /\ endpoint = "up" => ok
  /\ IF ok
       THEN /\ session' = [session EXCEPT ![ini[p].h] = "connected"]
            /\ isConnected' = TRUE
            /\ ini' = [ini EXCEPT ![p] = [pc |-> "list", h |-> client,
                         live |-> session'[client] = "connected"]]
            /\ UNCHANGED <<boot, req, initFailed>>
       ELSE /\ session' = session
            /\ isConnected' = FALSE
            /\ initFailed' = TRUE
            /\ ini' = [ini EXCEPT ![p] = NoIni]
            /\ Returned(p, FALSE)
  /\ UNCHANGED <<storeVars, workload, deployment, endpoint, client, tools, initSucceeded, arrivals>>

\* `await this.client.listTools()` settles.  It was sent on whatever
\* this.client was when the connect settled; a session that was not
\* connected then may or may not answer.
ListToolsReturns(p, ok) ==
  /\ ini[p].pc = "list"
  /\ (endpoint = "up" /\ ini[p].live) => ok
  /\ IF ok
       THEN /\ tools' = ToolList
            /\ isConnected' = isConnected
            /\ initSucceeded' = TRUE
            /\ initFailed' = initFailed
            /\ ini' = [ini EXCEPT ![p] = NoIni]
            /\ Returned(p, TRUE)
       ELSE /\ tools' = tools
            /\ isConnected' = FALSE
            /\ initSucceeded' = initSucceeded
            /\ initFailed' = TRUE
            /\ ini' = [ini EXCEPT ![p] = NoIni]
            /\ Returned(p, FALSE)
  /\ UNCHANGED <<storeVars, workload, deployment, endpoint, client, session, arrivals>>

Accepting(r) ==
  /\ boot = "listening"
  /\ workload # "concurrent" => r = "r1"
  /\ req[r].pc \in {"idle", "done"}
  /\ arrivals < (IF workload = "rounds" THEN MaxRounds ELSE MaxArrivals)

\* A conversation carried through rounds opens with one POST /api/chat;
\* every later request sends back what the conversation has become.
Opening(r) == workload = "rounds" => req[r].pc = "idle"

\* A request whose handler ends or awaits the model without touching the
\* Tool Endpoint Client.
Handle(r, q) ==
  /\ req' = [req EXCEPT ![r] = q]
  /\ arrivals' = arrivals + 1
  /\ UNCHANGED <<storeVars, workload, deployment, endpoint, client, isConnected, tools, session,
                 boot, ini, initSucceeded, initFailed>>

\* A request that finds the client not ready and awaits initialize().
HandleReconnect(r, q) ==
  /\ InitializeCall(r)
  /\ req' = [req EXCEPT ![r] = [q EXCEPT !.pc = "init", !.observed = TRUE,
                                         !.inits = @ + 1]]
  /\ arrivals' = arrivals + 1
  /\ UNCHANGED <<storeVars, workload, deployment, endpoint, isConnected, tools, boot, initSucceeded,
                 initFailed>>

\* POST /api/chat
Chat(r, q) ==
  IF ~ValidMessages(q.body.messages)
    THEN Handle(r, Respond(q, ErrorOut(400, "Messages array is required")))
  ELSE IF isReady THEN Handle(r, ChatProceed(q))
  ELSE IF deployment = "legacy"
    THEN Handle(r, Respond([q EXCEPT !.observed = TRUE],
                           ErrorOut(503, "MCP client not connected")))
  ELSE HandleReconnect(r, q)

ChatRequest(r, messages) ==
  /\ Accepting(r)
  /\ Opening(r)
  /\ Chat(r, [IdleReq EXCEPT !.route = "chat", !.body.messages = messages])

\* The client goes on with the conversation: it sends the conversation it
\* holds after a final answer, with the user's next message, to /api/chat.
ChatNextRound(r) ==
  /\ Accepting(r)
  /\ workload = "rounds"
  /\ req[r].out.status = 200
  /\ req[r].out.needsToolResponse # "true"
  /\ Chat(r, [IdleReq EXCEPT
        !.route = "chat",
        !.body.messages = ArrayOf(Append(Conversation(req[r]), U2)),
        !.origin = [rt |-> TRUE, messages |-> <<>>]])

\* POST /api/chat/continue with the body the client sent
Continue(r, q) ==
  IF deployment = "legacy" THEN Handle(r, ContinueProceed(q, TRUE))
  ELSE IF isReady THEN Handle(r, ContinueProceed(q, FALSE))
  ELSE HandleReconnect(r, q)

ContinueRequest(r, body) ==
  /\ Accepting(r)
  /\ workload # "rounds"
  /\ Continue(r, [IdleReq EXCEPT !.route = "continue", !.body = body])

\* The client feeds the answer of its /api/chat call, with the messages
\* of that call, into /api/chat/continue.
ContinueRoundTrip(r) ==
  /\ Accepting(r)
  /\ req[r].route = "chat"
  /\ req[r].out.status = 200
  /\ req[r].out.needsToolResponse = "true"
  /\ Continue(r, [IdleReq EXCEPT
        !.route = "continue",
        !.body = Body(req[r].body.messages, req[r].out.toolResults,
                      Field("object", req[r].out.response)),
        !.origin = [rt |-> TRUE, messages |-> req[r].body.messages.items]])

\* The awaited model call resolves.
GatewayReturns(r, turn) ==
  /\ req[r].pc = "model"
  /\ req' = [req EXCEPT ![r] =
       IF req[r].route = "continue"
         THEN ContinueTurn(req[r], turn, deployment = "legacy")
       ELSE IF deployment = "legacy" THEN ChatTurnAnthropic(req[r], turn)
       ELSE ChatTurnOpenAI(req[r], turn)]
  /\ UNCHANGED <<storeVars, workload, deployment, endpoint, client, isConnected, tools, session,
                 boot, ini, initSucceeded, initFailed, arrivals>>

\* The awaited model call rejects: the outer catch answers 500.
GatewayFails(r) ==
  /\ req[r].pc = "model"
  /\ req' = [req EXCEPT ![r] = Respond(req[r], ErrorOut(500, "provider error"))]
  /\ UNCHANGED <<storeVars, workload, deployment, endpoint, client, isConnected, tools, session,
                 boot, ini, initSucceeded, initFailed, arrivals>>

\* The awaited mcpClient.callTool settles, with a result or an error.
ToolReturns(r, ok) ==
  /\ req[r].pc = "tool"
  /\ req' = [req EXCEPT ![r] = ToolSettled(req[r], ok)]
  /\ UNCHANGED <<storeVars, workload, deployment, endpoint, client, isConnected, tools, session,
                 boot, ini, initSucceeded, initFailed, arrivals>>

Next ==
  \/ StartUp
  \/ \E p \in Procs, ok \in BOOLEAN : ConnectReturns(p, ok)
  \/ \E p \in Procs, ok \in BOOLEAN : ListToolsReturns(p, ok)
  \/ \E r \in Slots, m \in ChatInputs : ChatRequest(r, m)
  \/ \E r \in Slots, b \in ContinueInputs : ContinueRequest(r, b)
  \/ \E r \in Slots : ContinueRoundTrip(r)
  \/ \E r \in Slots : ChatNextRound(r)
  \/ \E r \in Slots, t \in Turns : GatewayReturns(r, t)
  \/ \E r \in Slots : GatewayFails(r)
  \/ \E r \in Slots, ok \in BOOLEAN : ToolReturns(r, ok)

Spec == Init /\ [][Next]_vars

\* ------------------------------------------------------------- chat store
\* A caller enters a function of the chat store, up to its first await.
Invoke(o, fn, chatId, userId, pc) ==
  /\ op[o].pc \in {"idle", "returned"}
  /\ op' = [op EXCEPT ![o] = [fn |-> fn, pc |-> pc, chatId |-> chatId,
                               userId |-> userId, success |-> "none"]]

\* return { success: ... }
Return(o, success) ==
  [op EXCEPT ![o] = [fn |-> op[o].fn, pc |-> "returned", chatId |-> 0,
                     userId |-> "none", success |-> success]]

\* The database hands out a fresh id for each inserted chat.
UnusedChatIds == {c \in ChatIds : chatRows[c] = "none" /\ c \notin deleted}
NewChatId == CHOOSE c \in UnusedChatIds : \A d \in UnusedChatIds : c <= d

\* Rows of the messages table.
RECURSIVE RowCount(_)
RowCount(c) == IF c = 0 THEN 0 ELSE messageRows[c] + RowCount(c - 1)

\* .from('chats').select('id').eq('id', chatId).eq('user_id', userId).single()
ChatOwnedBy(chatId, userId) == chatRows[chatId] = userId

createChat(o, userId) ==
  /\ Invoke(o, "createChat", 0, userId, "insertChat")
  /\ UNCHANGED <<relayVars, chatRows, messageRows, deleted>>

\* `await supabase.from('chats').insert([...]).select()` settles.
InsertChatReturns(o, ok) ==
  /\ op[o].pc = "insertChat"
  /\ IF ok
       THEN /\ UnusedChatIds # {}
            /\ chatRows' = [chatRows EXCEPT ![NewChatId] = op[o].userId]
            /\ op' = Return(o, "true")
       ELSE /\ chatRows' = chatRows
            /\ op' = Return(o, "false")
  /\ UNCHANGED <<relayVars, messageRows, deleted>>

addMessageToChat(o, chatId, userId) ==
  /\ Invoke(o, "addMessageToChat", chatId, userId, "verify")
  /\ UNCHANGED <<relayVars, chatRows, messageRows, deleted>>

deleteChat(o, chatId, userId) ==
  /\ Invoke(o, "deleteChat", chatId, userId, "verify")
  /\ UNCHANGED <<relayVars, chatRows, messageRows, deleted>>

\* The select that verifies the chat settles:
\* if (chatError || !chatData) return { success: false, error: 'Chat not found' }
VerifyReturns(o, ok) ==
  /\ op[o].pc = "verify"
  /\ op' = IF ok /\ ChatOwnedBy(op[o].chatId, op[o].userId)
             THEN [op EXCEPT ![o].pc = IF op[o].fn = "deleteChat"
                                         THEN "deleteMessages" ELSE "insertMessage"]
             ELSE Return(o, "false")
  /\ UNCHANGED <<relayVars, chatRows, messageRows, deleted>>

\* `await supabase.from('messages').insert([...]).select()` settles.
InsertMessageReturns(o, ok) ==
  /\ op[o].pc = "insertMessage"
  /\ IF ok
       THEN /\ RowCount(MaxChats) < MaxMessages
            /\ messageRows' = [messageRows EXCEPT ![op[o].chatId] = @ + 1]
            /\ op' = Return(o, "true")
       ELSE /\ messageRows' = messageRows
            /\ op' = Return(o, "false")
  /\ UNCHANGED <<relayVars, chatRows, deleted>>

\* `await supabase.from('messages').delete().eq('chat_id', chatId)` settles.
DeleteMessagesReturns(o, ok) ==
  /\ op[o].pc = "deleteMessages"
  /\ IF ok
       THEN /\ messageRows' = [messageRows EXCEPT ![op[o].chatId] = 0]
            /\ op' = [op EXCEPT ![o].pc = "deleteChat"]
       ELSE /\ messageRows' = messageRows
            /\ op' = Return(o, "false")
  /\ UNCHANGED <<relayVars, chatRows, deleted>>

\* `await supabase.from('chats').delete().eq('id', chatId)` settles.
DeleteChatReturns(o, ok) ==
  /\ op[o].pc = "deleteChat"
  /\ IF ok
       THEN /\ chatRows' = [chatRows EXCEPT ![op[o].chatId] = "none"]
            /\ deleted' = deleted \cup {op[o].chatId}
            /\ op' = Return(o, "true")
       ELSE /\ chatRows' = chatRows
            /\ deleted' = deleted
            /\ op' = Return(o, "false")
  /\ UNCHANGED <<relayVars, messageRows>>

\* The relay is at rest while the chat store is exercised.
InitStore ==
  /\ Init
  /\ workload = "sequential"
  /\ deployment = "server"
  /\ endpoint = "up"

NextStore ==
  \/ \E o \in Callers, u \in Users : createChat(o, u)
  \/ \E o \in Callers, ok \in BOOLEAN : InsertChatReturns(o, ok)
  \/ \E o \in Callers, c \in ChatIds, u \in Users : addMessageToChat(o, c, u)
  \/ \E o \in Callers, c \in ChatIds, u \in Users : deleteChat(o, c, u)
  \/ \E o \in Callers, ok \in BOOLEAN : VerifyReturns(o, ok)
  \/ \E o \in Callers, ok \in BOOLEAN : InsertMessageReturns(o, ok)
  \/ \E o \in Callers, ok \in BOOLEAN : DeleteMessagesReturns(o, ok)
  \/ \E o \in Callers, ok \in BOOLEAN : DeleteChatReturns(o, ok)

SpecStore == InitStore /\ [][NextStore]_vars

\* ------------------------------------------------------------- claims
\* The tool calls the model emitted in the turn a request received.
EmittedCalls(q) ==
  IF q.turn.stop_reason # "absent"
    THEN SelectSeq(q.turn.content, LAMBDA b : b.type = "tool_use")
    ELSE q.turn.tool_calls.items

\* The turn a request received asks for tools / is a final answer.
IsToolRequest(q) ==
  IF q.turn.stop_reason # "absent" THEN q.turn.stop_reason = "tool_use"
  ELSE q.turn.tool_calls.k = "array" /\ Len(q.turn.tool_calls.items) > 0

GotTurn(q) == q.pc = "done" /\ q.turn # NoObj

\* C1: in POST /api/chat, a model turn with N >= 1 tool calls leads to
\* exactly N callTool invocations in emitted order and to N toolResults,
\* the i-th carrying the identifier and name of the i-th call.
C1_ToolCallsExecutedInOrder ==
  \A r \in Slots :
    LET q == req[r]
        calls == EmittedCalls(q) IN
    (q.route = "chat" /\ GotTurn(q) /\ IsToolRequest(q)) =>
      /\ Len(q.callLog) = Len(calls)
      /\ \A i \in 1..Len(q.callLog) : q.callLog[i].name = calls[i].name
      /\ q.out.toolResults.k = "array"
      /\ Len(q.out.toolResults.items) = Len(calls)
      /\ \A i \in 1..Len(q.out.toolResults.items) :
           /\ q.out.toolResults.items[i].id = calls[i].id
           /\ q.out.toolResults.items[i].name = calls[i].name

\* C2: in POST /api/chat, no failure of one tool call (its arguments
\* included) aborts the request: it answers 200 with needsToolResponse
\* true and one entry per call, each with either a result or an error.
C2_FailureNeverAbortsOthers ==
  \A r \in Slots :
    LET q == req[r] IN
    (q.route = "chat" /\ GotTurn(q) /\ IsToolRequest(q)) =>
      /\ q.out.status = 200
      /\ q.out.needsToolResponse = "true"
      /\ Len(q.out.toolResults.items) = Len(EmittedCalls(q))
      /\ \A i \in 1..Len(q.out.toolResults.items) :
           (q.out.toolResults.items[i].error = "absent")
             # (q.out.toolResults.items[i].result = "absent")

\* C3 as stated: a POST /api/chat whose messages is empty, missing or
\* not a sequence is answered 400 at once and never reaches the Model
\* Gateway.
C3_EmptyMissingOrNonArrayRejected ==
  \A r \in Slots :
    LET q == req[r] IN
    (q.route = "chat" /\ (q.body.messages.k # "array" \/ q.body.messages.items = <<>>)) =>
      /\ q.pc = "done"
      /\ q.out.status = 400
      /\ q.gw = 0

\* C3 as amended: a POST /api/chat whose messages is missing or not a
\* sequence is answered 400 at once, with no reconnect attempt, no Model
\* Gateway call and no tool call; a sequence, the empty one included, is
\* never answered 400.
C3_MissingOrNonArrayRejected ==
  \A r \in Slots :
    LET q == req[r] IN
    q.route = "chat" =>
      IF q.body.messages.k # "array"
        THEN /\ q.pc = "done"
             /\ q.out.status = 400
             /\ q.gw = 0 /\ q.inits = 0 /\ q.callLog = <<>>
        ELSE q.out.status # 400

C3_Witness ==
  \E r \in Slots :
    /\ req[r].route = "chat"
    /\ req[r].body.messages.k = "string"
    /\ req[r].out.status = 400

C5_ReadyOnlyAfterToolsListed ==
  /\ (boot = "listening" /\ isReady) => initSucceeded
  /\ ~initSucceeded => getTools = <<>>

\* C6: once some initialize() has succeeded, no later callTool fails
\* with NotConnected, whatever the interleaving.
C6_NeverNotConnectedAfterConnect ==
  \A r \in Slots :
    \A i \in 1..Len(req[r].callLog) :
      req[r].callLog[i].afterSuccess => ~req[r].callLog[i].notConnected

\* C7: a relay invocation (chat or continue) that received a final
\* answer responds with needsToolResponse present and false, and without
\* toolResults.
C7_FinalAnswerHasFalseFlag ==
  \A r \in Slots :
    LET q == req[r] IN
    (GotTurn(q) /\ q.out.status = 200 /\ ~IsToolRequest(q)) =>
      /\ q.out.needsToolResponse = "false"
      /\ q.out.toolResults.k = "absent"

\* The conversation a continuation submitted, split at the end of the
\* original messages.
OriginalPart(q) == SubSeq(q.submitted, 1, Len(q.origin.messages))
AppendedPart(q) == SubSeq(q.submitted, Len(q.origin.messages) + 1, Len(q.submitted))

RoundTripSubmitted(q) ==
  q.route = "continue" /\ q.origin.rt /\ q.pc = "model"

\* The tail is the assistant's tool-request message followed by one tool
\* result per entry of toolResults, in the same order.
TailIsRequestThenResults(q) ==
  LET given == q.body.toolResults.items
      tail  == AppendedPart(q) IN
  IF deployment = "legacy"
    THEN /\ Len(tail) = 2
         /\ tail[1].role = "assistant"
         /\ tail[1].content = q.body.assistantResponse.v.content
         /\ tail[2].role = "user"
         /\ Len(tail[2].content) = Len(given)
         /\ \A j \in 1..Len(given) :
              /\ tail[2].content[j].type = "tool_result"
              /\ tail[2].content[j].id = given[j].id
    ELSE /\ Len(tail) = 1 + Len(given)
         /\ tail[1] = q.body.assistantResponse.v
         /\ \A j \in 1..Len(given) :
              /\ tail[1 + j].role = "tool"
              /\ tail[1 + j].tool_call_id = given[j].id

\* C8 as stated: a round trip submits exactly the original messages, in
\* order and each unchanged, then the assistant's tool-request message,
\* then the tool results, one per entry of toolResults in order.
C8_RoundTripKeepsOriginals ==
  \A r \in Slots :
    RoundTripSubmitted(req[r]) =>
      /\ Len(req[r].submitted) > Len(req[r].origin.messages)
      /\ OriginalPart(req[r]) = req[r].origin.messages
      /\ TailIsRequestThenResults(req[r])

\* C8 as amended: a round trip submits the original messages in their
\* order, each reduced to its role and content (any other property of
\* it is dropped), then the assistant's tool-request message, then the
\* tool results, one per entry of toolResults in order.
C8_RoundTripKeepsRoleAndContent ==
  \A r \in Slots :
    LET q == req[r] IN
    RoundTripSubmitted(q) =>
      /\ Len(q.submitted) > Len(q.origin.messages)
      /\ \A i \in 1..Len(q.origin.messages) :
           /\ q.submitted[i].role = q.origin.messages[i].role
           /\ q.submitted[i].content = q.origin.messages[i].content
           /\ q.submitted[i].extra = "absent"
           /\ q.submitted[i].tool_calls = NoCalls
           /\ q.submitted[i].tool_call_id = "absent"
      /\ TailIsRequestThenResults(q)

C8_Witness ==
  \E r \in Slots :
    /\ RoundTripSubmitted(req[r])
    /\ deployment # "legacy"
    /\ Len(req[r].origin.messages) = 2
    /\ req[r].origin.messages[1].extra # "absent"
    /\ Len(req[r].body.toolResults.items) = 2
    /\ Len(req[r].submitted) = 5

\* C9: a continuation whose new turn asks for N tool calls executes them
\* and returns N toolResults with needsToolResponse true; one whose new
\* turn is a final answer returns needsToolResponse false.
C9_ContinuationExecutesToolCalls ==
  \A r \in Slots :
    LET q == req[r] IN
    (q.route = "continue" /\ GotTurn(q) /\ q.out.status = 200) =>
      IF IsToolRequest(q)
        THEN /\ q.out.needsToolResponse = "true"
             /\ Len(q.callLog) = Len(EmittedCalls(q))
             /\ q.out.toolResults.k = "array"
             /\ Len(q.out.toolResults.items) = Len(EmittedCalls(q))
        ELSE q.out.needsToolResponse \in {"false", "absent", "null"}

\* C10: against a reachable endpoint every initialize() returns true,
\* and when none is running any more the client is connected, its handle
\* is a connected session and tools is the fetched list.
C10_ConcurrentInitializeIdempotent ==
  endpoint = "up" =>
    /\ ~initFailed
    /\ (boot # "load" /\ \A p \in Procs : ini[p].pc = "none") =>
         /\ isConnected
         /\ session[client] = "connected"
         /\ tools = ToolList

\* The identifiers of the tool calls an assistant message emits.
EmittedIds(m) ==
  { m.tool_calls.items[c].id : c \in 1..Len(m.tool_calls.items) }
    \cup { m.content[c].id : c \in { d \in 1..Len(m.content) :
                                        m.content[d].type = "tool_use" } }

\* The identifiers the tool results of a message refer to: the
\* tool_call_id of a role:'tool' message, the tool_use_id of each
\* tool_result block.
ReferredIds(m) ==
  (IF m.role = "tool" THEN {m.tool_call_id} ELSE {})
    \cup { m.content[c].id : c \in { d \in 1..Len(m.content) :
                                        m.content[d].type = "tool_result" } }

\* Message i of the list carries tool results, and each of them names a
\* call of the assistant message just before it (sibling role:'tool'
\* messages may stand in between).
LinkedToPrecedingAssistant(list, i) ==
  \E j \in 1..(i - 1) :
    /\ list[j].role = "assistant"
    /\ \A k \in (j + 1)..(i - 1) : list[k].role = "tool"
    /\ ReferredIds(list[i]) \subseteq EmittedIds(list[j])

\* A request of a conversation the client carries from round to round
\* has submitted its list to the Model Gateway.
AccumulatedSubmitted(q) == q.origin.rt /\ q.pc = "model"

\* C11: in every list submitted to the Model Gateway, over the rounds
\* of a conversation the client sends back as accumulated, each
\* tool-result message carries an identifier emitted by the immediately
\* preceding assistant message of that list.
C11_ToolResultsLinkedAcrossRounds ==
  \A r \in Slots :
    LET q == req[r] IN
    AccumulatedSubmitted(q) =>
      \A i \in 1..Len(q.submitted) :
        ReferredIds(q.submitted[i]) # {} =>
          LinkedToPrecedingAssistant(q.submitted, i)

\* C12: in POST /api/chat and POST /api/chat/continue, no message of
\* the list passed to the Model Gateway carries a bookkeeping field of
\* the request body: each holds only role, content and the tool-call
\* linkage fields.
C12_NoExtraFieldReachesProvider ==
  \A r \in Slots :
    LET q == req[r] IN
    q.pc = "model" =>
      \A i \in 1..Len(q.submitted) : q.submitted[i].extra = "absent"

\* The conversation data of a continuation is malformed or missing.
MalformedContinue(body) ==
  \/ body.messages.k # "array"
  \/ body.toolResults.k # "array"
  \/ body.assistantResponse.k # "object"

\* C13: a POST /api/chat/continue whose messages, toolResults or
\* assistantResponse is missing or malformed is answered 400 at once:
\* no reconnect attempt, no Model Gateway call, and never a 500.
C13_MalformedContinueRejected ==
  \A r \in Slots :
    LET q == req[r] IN
    (q.route = "continue" /\ MalformedContinue(q.body)) =>
      /\ q.pc = "done"
      /\ q.out.status = 400
      /\ q.inits = 0
      /\ q.gw = 0

\* The awaited model call of an answered request was rejected: the
\* Model Gateway was called and no turn came back.
ProviderFailed(q) == q.pc = "done" /\ q.gw > 0 /\ q.turn = NoObj

\* C14: one relay invocation calls the Model Gateway at most once: tool
\* calls run only after that one call has resolved and their results
\* are not submitted again, and a provider error is not retried but
\* ends the request with 500 and the provider's message, with no tool
\* call executed.
C14_GatewayCalledAtMostOnce ==
  \A r \in Slots :
    LET q == req[r] IN
    /\ q.gw <= 1
    /\ (q.pc = "tool" \/ q.callLog # <<>>) => (q.gw = 1 /\ q.turn # NoObj)
    /\ ProviderFailed(q) =>
         /\ q.gw = 1
         /\ q.out.status = 500
         /\ q.out.error = "provider error"
         /\ q.callLog = <<>>
         /\ q.out.toolResults.k = "absent"

C14_Witness ==
  \E r, p \in Slots :
    /\ req[r].route = "chat" /\ req[r].pc = "done"
    /\ req[r].out.status = 200 /\ req[r].out.needsToolResponse = "true"
    /\ req[r].callLog # <<>> /\ req[r].gw = 1
    /\ req[p].route = "continue" /\ ProviderFailed(req[p])
    /\ req[p].out.status = 500

\* C15: after deleteChat has returned success the store holds neither
\* the chat nor a message with its chat_id, and every stored message
\* belongs to an existing chat, under any interleaving of deleteChat
\* with addMessageToChat and any failure of a delete step.
C15_DeleteChatLeavesNoOrphans ==
  /\ \A c \in deleted : chatRows[c] = "none" /\ messageRows[c] = 0
  /\ \A c \in ChatIds : messageRows[c] > 0 => chatRows[c] # "none"
====
